---- MODULE Spec2Model ----
(***************************************************************************)
(* Verification model of the tool-calling agent loop and retrieval engine  *)
(* (multi_agent.py, agent_tools.py, db_utils.py, rag_service.py) and of    *)
(* the POST /query handler of main.py.                                     *)
(*                                                                         *)
(* Texts are modelled by their structure.  A model reply is a sequence of  *)
(* segments (prose, a fenced json block, a bare object, an imperative      *)
(* "CALL tool: NAME ..." phrase, a call-syntax token NAME(...)); segments  *)
(* are separated by prose words, and prose holds no brace, parenthesis or  *)
(* call keyword.  A JSON object text is modelled by the facts the regular  *)
(* expressions and json.loads depend on.  Python values are tagged         *)
(* records [type, val, items].                                             *)
(***************************************************************************)
EXTENDS Integers, Sequences, FiniteSets, TLC

VARIABLES
    \* ToolRegistry / MultiAgentSystem configuration
    tools,                 \* ToolRegistry.tools: name -> descriptor
    db_manager,            \* "set" or "none" (db_manager is None)
    \* one MultiAgentSystem.query invocation
    pc,                    \* "idle", "loop", "done", "raised"
    iteration,
    conversation_history,
    tool_calls_history,
    final_answer,
    outcome,               \* "", "direct", "degraded", or the exception raised
    backend_calls,         \* number of _call_ollama calls made
    dispatches,            \* number of call_tool calls made
    turn,                  \* what the last loop iteration did
    store_call,            \* what the record store did in the last iteration
    described,             \* len(self.tools) when the loop of
                           \* get_tools_description began, 0 outside it
    \* one POST /query request served through RAGService.query
    rag_pc,                \* "off", "retrieved", "answered", "failed"
    rag_query, relevant_chunks, formatted_chunks, tool_calls_used, http_status,
    \* one _extract_tool_call application
    ex_text, ex_result, ex_pc,
    \* RAGService corpus state and one _retrieve_relevant_chunks application
    chunks, embeddings, embedding_model, rt_query, rt_k, rt_scores, rt_result, rt_pc,
    \* one load_documents application
    loaded,                \* RAGService._loaded
    ld_file, ld_text, ld_pc, \* the knowledge file: present or missing, its text
    \* load_documents and _retrieve_relevant_chunks running step by step
    embedded,              \* the passage list self.embeddings was encoded from
    rt_mode,               \* the branch a retrieval took
    rt_top,                \* top_indices of a semantic retrieval
    rt_rows,               \* the passage list whose embeddings it scored
    rt_chunks,             \* the passages it returned, as read from self.chunks
    last_load,             \* how the most recent load_documents call ended
    load_mode,             \* the mode the most recent completed load selected
    \* one get_employees_by_department call on a table of any size
    dp_table, dp_department, dp_result, dp_pc

vars == <<tools, db_manager, pc, iteration, conversation_history,
          tool_calls_history, final_answer, outcome, backend_calls,
          dispatches, turn, store_call, described,
          rag_pc, rag_query, relevant_chunks, formatted_chunks, tool_calls_used,
          http_status, ex_text, ex_result, ex_pc,
          chunks, embeddings, embedding_model, rt_query, rt_k, rt_scores, rt_result, rt_pc,
          loaded, ld_file, ld_text, ld_pc,
          embedded, rt_mode, rt_top, rt_rows, rt_chunks, last_load, load_mode,
          dp_table, dp_department, dp_result, dp_pc>>

orch_vars == <<pc, iteration, conversation_history, tool_calls_history,
               final_answer, outcome, backend_calls, dispatches, turn,
               store_call, described>>
rag_vars == <<rag_pc, rag_query, relevant_chunks, formatted_chunks,
              tool_calls_used, http_status>>
ex_vars == <<ex_text, ex_result, ex_pc>>
rt_vars == <<chunks, embeddings, embedding_model, rt_query, rt_k, rt_scores, rt_result, rt_pc>>
ld_vars == <<loaded, ld_file, ld_text, ld_pc>>
rl_vars == <<embedded, rt_mode, rt_top, rt_rows, rt_chunks, last_load, load_mode>>
dp_vars == <<dp_table, dp_department, dp_result, dp_pc>>

(***************************************************************************)
(* Python / JSON values                                                    *)
(***************************************************************************)
NoItems == [k \in {} |-> ""]
None == [type |-> "none", val |-> "", items |-> NoItems]
\* v is None
IsNone(v) == v.type = "none"
\* the None that json.loads gives for null
JNull == [type |-> "null", val |-> "None", items |-> NoItems]
JStr(s) == [type |-> "str", val |-> s, items |-> NoItems]
JNum(s) == [type |-> "num", val |-> s, items |-> NoItems]
JList(s) == [type |-> "list", val |-> s, items |-> NoItems]
JDict(f) == [type |-> "dict", val |-> "", items |-> f]
EmptyDict == JDict(NoItems)

\* dict membership and dict.get(key, default)
HasKey(d, k) == d.type = "dict" /\ k \in DOMAIN d.items
DictGet(d, k, default) == IF HasKey(d, k) THEN d.items[k] ELSE default
\* bool(d) of an Optional[Dict]
Truthy(d) == d.type = "dict" /\ DOMAIN d.items # {}
\* hash(v) raises TypeError for list and dict
Hashable(v) == v.type \notin {"list", "dict"}
\* str(v)
Str(v) == IF v.type = "none" THEN "None"
          ELSE IF v.type = "dict" THEN ToString(v.items) ELSE v.val

(***************************************************************************)
(* JSON object texts: src is the text; valid says whether json.loads       *)
(* accepts it and value is what it returns; flat says the text holds no    *)
(* brace inside its outer braces; toolword says the text holds "tool"      *)
(* (with its quotes).                                                      *)
(***************************************************************************)
ObjText(src, valid, flat, toolword, value) ==
    [src |-> src, valid |-> valid, flat |-> flat, toolword |-> toolword,
     value |-> value]

GoodArgs == JDict("employee_id" :> JStr("EMP001"))

ONested == ObjText("{\"tool\":\"get_employee_by_id\",\"arguments\":{\"employee_id\":\"EMP001\"}}",
                   TRUE, FALSE, TRUE,
                   JDict("tool" :> JStr("get_employee_by_id") @@ "arguments" :> GoodArgs))
OFlat == ObjText("{\"tool\":\"search_employees\"}", TRUE, TRUE, TRUE,
                 JDict("tool" :> JStr("search_employees")))
OListTool == ObjText("{\"tool\":[\"x\"]}", TRUE, TRUE, TRUE,
                     JDict("tool" :> JList("[x]")))
OPing == ObjText("{\"tool\":\"ping\"}", TRUE, TRUE, TRUE,
                 JDict("tool" :> JStr("ping")))
ONullTool == ObjText("{\"tool\":null,\"arguments\":null}", TRUE, TRUE, TRUE,
                     JDict("tool" :> JNull @@ "arguments" :> JNull))
ONoTool == ObjText("{\"employee_id\":\"EMP001\"}", TRUE, TRUE, FALSE, GoodArgs)
ONestedArgs == ObjText("{\"employee_id\":{\"a\":1}}", TRUE, FALSE, FALSE,
                       JDict("employee_id" :> JDict("a" :> JNum("1"))))
OEmpty == ObjText("{}", TRUE, TRUE, FALSE, EmptyDict)
OBad == ObjText("{bad}", FALSE, TRUE, FALSE, None)
OBadTool == ObjText("{\"tool\": oops}", FALSE, TRUE, TRUE, None)

\* json.loads(text): ok is FALSE when it raises
json_loads(t) == [ok |-> t.valid, value |-> IF t.valid THEN t.value ELSE None]

(***************************************************************************)
(* Reply segments                                                          *)
(***************************************************************************)
Seg(kind, name, hasobj, obj, kv) ==
    [kind |-> kind, name |-> name, hasobj |-> hasobj, obj |-> obj, kv |-> kv]
Prose == Seg("prose", "", FALSE, OEmpty, <<>>)
\* ```json <obj> ```
Fence(obj) == Seg("fence", "", TRUE, obj, <<>>)
\* <obj> outside a fence
Bare(obj) == Seg("bare", "", TRUE, obj, <<>>)
\* CALL tool: NAME            /  CALL tool: NAME with arguments: <obj>
Imper(name) == Seg("imper", name, FALSE, OEmpty, <<>>)
ImperArgs(name, obj) == Seg("imper", name, TRUE, obj, <<>>)
\* NAME(k="v", ...): kv lists the key="value" pairs between the parentheses
CallTok(name, kv) == Seg("call", name, FALSE, OEmpty, kv)

OneKv == << <<"employee_id", "EMP001">> >>

\* the first of the indices at which a pattern matches, 0 when there is none
\* (re.search returns the leftmost match only)
FirstIndex(matches) ==
    IF matches = {} THEN 0
    ELSE CHOOSE i \in matches : \A j \in matches : i <= j

(***************************************************************************)
(* MultiAgentSystem._extract_tool_call                                     *)
(***************************************************************************)
IsFence(seg) == seg.kind = "fence"
IsImper(seg) == seg.kind = "imper"
IsCallTok(seg) == seg.kind = "call"
\* r'\{[^{}]*"tool"[^{}]*\}' matches an object text, fenced or not, that
\* holds "tool" and no inner brace
MatchesSimpleJson(seg) == seg.hasobj /\ seg.obj.flat /\ seg.obj.toolword

\* Pattern 1: the first fenced json block; json.loads of its object
Pattern1(text) ==
    LET i == FirstIndex({j \in DOMAIN text : IsFence(text[j])}) IN
    IF i = 0 THEN None
    ELSE LET r == json_loads(text[i].obj) IN
         IF r.ok THEN r.value ELSE None

\* Pattern 2: the first brace-free object text holding "tool"
Pattern2(text) ==
    LET i == FirstIndex({j \in DOMAIN text : MatchesSimpleJson(text[j])}) IN
    IF i = 0 THEN None
    ELSE LET r == json_loads(text[i].obj) IN
         IF r.ok THEN r.value ELSE None

\* group(2) of func_pattern, (\{.*?\})?: the lazy match ends at the first
\* closing brace, which cuts an object text that holds an inner object
LazyObject(obj) ==
    IF obj.flat THEN obj
    ELSE ObjText(obj.src \o " (cut at the first closing brace)",
                 FALSE, FALSE, obj.toolword, None)

\* Pattern 3: the first imperative phrase; arguments default to {} when
\* absent or unparsable
Pattern3(text) ==
    LET i == FirstIndex({j \in DOMAIN text : IsImper(text[j])}) IN
    IF i = 0 THEN None
    ELSE LET args_str == IF text[i].hasobj THEN LazyObject(text[i].obj)
                         ELSE OEmpty
             r == json_loads(args_str)
             args == IF r.ok THEN r.value ELSE EmptyDict
         IN  JDict("tool" :> JStr(text[i].name) @@ "arguments" :> args)

\* args[k] = v for every key="value" pair, in order (a later pair wins)
KvArgs(kv) ==
    JDict([k \in {kv[i][1] : i \in DOMAIN kv} |->
              JStr(kv[CHOOSE i \in DOMAIN kv :
                          kv[i][1] = k /\ \A j \in DOMAIN kv :
                              kv[j][1] = k => j <= i][2])])

\* Pattern 4: the first NAME(...) token, taken only when NAME is registered
\* and at least one key="value" pair is found
Pattern4(text, registry) ==
    LET i == FirstIndex({j \in DOMAIN text : IsCallTok(text[j])}) IN
    IF i = 0 THEN None
    ELSE IF text[i].name \in DOMAIN registry /\ Len(text[i].kv) > 0
         THEN JDict("tool" :> JStr(text[i].name)
                    @@ "arguments" :> KvArgs(text[i].kv))
         ELSE None

extract_tool_call(response, registry) ==
    LET p1 == Pattern1(response)
        p2 == Pattern2(response)
        p3 == Pattern3(response)
        p4 == Pattern4(response, registry)
    IN  IF ~IsNone(p1) THEN p1
        ELSE IF ~IsNone(p2) THEN p2
        ELSE IF ~IsNone(p3) THEN p3
        ELSE p4

(***************************************************************************)
(* Strings the record store and the retriever look into: str.lower,        *)
(* str.upper and the characters of the lower-case strings                  *)
(***************************************************************************)
Lower(s) ==
    CASE s = "HR" -> "hr" [] s = "IT" -> "it" [] s = "Hr" -> "hr"
      [] s = "EMP001" -> "emp001" [] s = "EMP002" -> "emp002"
      [] s = "EMP009" -> "emp009" [] s = "EMP" -> "emp"
      [] s = "Ann" -> "ann" [] s = "Bob" -> "bob" [] s = "Chris" -> "chris"
      [] s = "Payday" -> "payday" [] s = "Payroll" -> "payroll"
      [] s = "Vacation" -> "vacation" [] s = "Pay" -> "pay"
      [] OTHER -> s
Upper(s) ==
    CASE s = "emp001" -> "EMP001" [] s = "emp002" -> "EMP002"
      [] s = "emp009" -> "EMP009" [] s = "hr" -> "HR" [] s = "it" -> "IT"
      [] OTHER -> s
Chars(s) ==
    CASE s = "hr" -> <<"h", "r">>
      [] s = "it" -> <<"i", "t">>
      [] s = "io" -> <<"i", "o">>
      [] s = "emp" -> <<"e", "m", "p">>
      [] s = "emp001" -> <<"e", "m", "p", "0", "0", "1">>
      [] s = "emp002" -> <<"e", "m", "p", "0", "0", "2">>
      [] s = "emp009" -> <<"e", "m", "p", "0", "0", "9">>
      [] s = "ann" -> <<"a", "n", "n">>
      [] s = "bob" -> <<"b", "o", "b">>
      [] s = "chris" -> <<"c", "h", "r", "i", "s">>
      [] s = "ann@x.io" -> <<"a", "n", "n", "@", "x", ".", "i", "o">>
      [] s = "bob@x.io" -> <<"b", "o", "b", "@", "x", ".", "i", "o">>
      [] s = "pay" -> <<"p", "a", "y">>
      [] s = "payday" -> <<"p", "a", "y", "d", "a", "y">>
      [] s = "payroll" -> <<"p", "a", "y", "r", "o", "l", "l">>
      [] s = "vacation" -> <<"v", "a", "c", "a", "t", "i", "o", "n">>
      [] s = "is" -> <<"i", "s">>
      [] s = "when" -> <<"w", "h", "e", "n">>
      [] OTHER -> <<s>>
\* a in b, for character sequences
IsSubstr(a, b) ==
    \E i \in 0..(Len(b) - Len(a)) : SubSeq(b, i + 1, i + Len(a)) = a
\* a.lower() in b.lower()
ContainsCI(b, a) == IsSubstr(Chars(Lower(a)), Chars(Lower(b)))

(***************************************************************************)
(* DatabaseManager: the employees table and its two queries.  cond is the  *)
(* store's condition at the call: "ok"; "error", a mysql.connector.Error   *)
(* (caught inside DatabaseManager); "crash", any other exception, such as  *)
(* the AttributeError of a connection that is None (not caught there).     *)
(***************************************************************************)
Employees ==
    << [EmployeeID |-> "EMP001", Name |-> "Ann", Email |-> "ann@x.io", Department |-> "HR"],
       [EmployeeID |-> "EMP002", Name |-> "Bob", Email |-> "bob@x.io", Department |-> "IT"] >>
DbConds == {"ok", "error", "crash"}

Ret(v) == [raised |-> FALSE, exc |-> "", value |-> v]
Raise(exc) == [raised |-> TRUE, exc |-> exc, value |-> None]

Take(seq, n) == SubSeq(seq, 1, IF n < Len(seq) THEN n ELSE Len(seq))

\* SELECT * FROM employees WHERE EmployeeID = %s  (fetchone)
db_get_employee_by_id(employee_id, cond) ==
    IF cond = "crash" THEN Raise("AttributeError")
    ELSE IF cond = "error" THEN Ret(<<>>)
    ELSE LET hit(e) == Lower(e.EmployeeID) = Lower(employee_id) IN
         Ret(Take(SelectSeq(Employees, hit), 1))

\* SELECT ... WHERE Name LIKE %t% OR Email LIKE .. OR Department LIKE ..
\* OR EmployeeID LIKE .. LIMIT n  (fetchall); a limit MySQL rejects is a
\* mysql.connector.Error
db_search_employees_on(table, search_term, limit, cond) ==
    IF cond = "crash" THEN Raise("AttributeError")
    ELSE IF cond = "error" \/ limit < 0 THEN Ret(<<>>)
    ELSE LET hit(e) == \/ ContainsCI(e.Name, search_term)
                       \/ ContainsCI(e.Email, search_term)
                       \/ ContainsCI(e.Department, search_term)
                       \/ ContainsCI(e.EmployeeID, search_term)
         IN  Ret(Take(SelectSeq(table, hit), limit))

\* the same query on the two-row table
db_search_employees(search_term, limit, cond) ==
    db_search_employees_on(Employees, search_term, limit, cond)

(***************************************************************************)
(* ToolRegistry                                                            *)
(***************************************************************************)
DefaultSearchLimit == 10
DepartmentSearchLimit == 100

Descriptor(name, required, optional) ==
    [name |-> name, required |-> required, optional |-> optional,
     function |-> name]

\* ToolRegistry.__init__ / _register_tools: the three registered tools
RegisteredTools ==
    "get_employee_by_id" :>
        Descriptor("get_employee_by_id", {"employee_id"}, {})
    @@ "search_employees" :>
        Descriptor("search_employees", {"search_term"}, {"limit"})
    @@ "get_employees_by_department" :>
        Descriptor("get_employees_by_department", {"department"}, {})

\* tools a caller of the public register_tool adds after construction: a
\* new tool "ping" whose function takes no argument and returns
\* {"success": True, "data": "pong"}, and a function for the name
\* get_employee_by_id that returns {"success": False, "error": "replaced"}
PingTool ==
    [name |-> "ping", required |-> {}, optional |-> {}, function |-> "ping"]
ReplacedTool ==
    [name |-> "get_employee_by_id", required |-> {"employee_id"},
     optional |-> {}, function |-> "replaced"]
RegistrableTools == {PingTool, ReplacedTool}

\* ToolRegistry.register_tool: self.tools[name] = {...}; a name already
\* registered gets the new descriptor
register_tool(registry, desc) ==
    [n \in DOMAIN registry \cup {desc.name} |->
        IF n = desc.name THEN desc ELSE registry[n]]

\* the names whose descriptor is not the one _register_tools gave
MaxRegistrations == 1
Registrations(registry) ==
    Cardinality({n \in DOMAIN registry :
                    \/ n \notin DOMAIN RegisteredTools
                    \/ registry[n] # RegisteredTools[n]})

\* Tool results: a dict with the keys in keys
Result(keys, error, success, data_kind, data, count) ==
    [keys |-> keys, error |-> error, success |-> success,
     data_kind |-> data_kind, data |-> data, count |-> count]
ErrResult(msg) == Result({"error"}, msg, FALSE, "none", <<>>, 0)
NoResult == Result({}, "", FALSE, "none", <<>>, 0)
\* result.get("error") is truthy
IsErrorResult(r) == "error" \in r.keys /\ r.error # ""

\* ToolRegistry._get_employee_by_id
tool_get_employee_by_id(args, dbm, cond) ==
    IF dbm = "none" THEN Ret(ErrResult("Database not available"))
    ELSE IF args["employee_id"].type # "str" THEN Raise("AttributeError")
    ELSE LET q == db_get_employee_by_id(Upper(args["employee_id"].val), cond) IN
         IF q.raised THEN q
         ELSE IF Len(q.value) > 0
              THEN Ret(Result({"success", "data"}, "", TRUE, "dict", q.value, 0))
              ELSE Ret(Result({"success", "error"},
                              "Employee " \o args["employee_id"].val \o " not found",
                              FALSE, "none", <<>>, 0))

\* int value of a JSON number; -1 for a value MySQL rejects as a LIMIT
LimitOf(v) ==
    IF v.type # "num" THEN -1
    ELSE CASE v.val = "1" -> 1 [] v.val = "10" -> 10 [] OTHER -> -1

\* ToolRegistry._search_employees
tool_search_employees(args, dbm, cond) ==
    IF dbm = "none" THEN Ret(ErrResult("Database not available"))
    ELSE LET limit == IF "limit" \in DOMAIN args THEN LimitOf(args["limit"])
                      ELSE DefaultSearchLimit
             q == db_search_employees(Str(args["search_term"]), limit, cond)
         IN  IF q.raised THEN q
             ELSE Ret(Result({"success", "data", "count"}, "", TRUE, "list",
                             q.value, Len(q.value)))

\* self.db_manager.search_employees(department, limit=100)
DepartmentSearch(table, term, cond) ==
    db_search_employees_on(table, term, DepartmentSearchLimit, cond)

\* ToolRegistry._get_employees_by_department, the employees table being table
tool_get_employees_by_department_on(table, args, dbm, cond) ==
    IF dbm = "none" THEN Ret(ErrResult("Database not available"))
    ELSE LET department == args["department"]
             q == DepartmentSearch(table, Str(department), cond)
         IN  IF q.raised THEN q
             ELSE IF Len(q.value) > 0 /\ department.type # "str"
                  THEN Raise("AttributeError")
             ELSE LET same(e) == Lower(e.Department) = Lower(department.val)
                      filtered == SelectSeq(q.value, same)
                  IN  Ret(Result({"success", "data", "count"}, "", TRUE, "list",
                                 filtered, Len(filtered)))

tool_get_employees_by_department(args, dbm, cond) ==
    tool_get_employees_by_department_on(Employees, args, dbm, cond)

\* tool["function"](**arguments): Python raises TypeError when arguments is
\* no mapping, names a parameter the function lacks, or misses a required one
Invoke(desc, arguments, dbm, cond) ==
    IF arguments.type # "dict" THEN Raise("TypeError")
    ELSE IF ~(DOMAIN arguments.items \subseteq (desc.required \cup desc.optional))
         THEN Raise("TypeError")
    ELSE IF ~(desc.required \subseteq DOMAIN arguments.items) THEN Raise("TypeError")
    ELSE CASE desc.function = "get_employee_by_id" ->
                  tool_get_employee_by_id(arguments.items, dbm, cond)
           [] desc.function = "search_employees" ->
                  tool_search_employees(arguments.items, dbm, cond)
           [] desc.function = "ping" ->
                  Ret(Result({"success", "data"}, "", TRUE, "str",
                             <<JStr("pong")>>, 0))
           [] desc.function = "replaced" ->
                  Ret(Result({"success", "error"}, "replaced", FALSE, "none",
                             <<>>, 0))
           [] OTHER ->
                  tool_get_employees_by_department(arguments.items, dbm, cond)

\* ToolRegistry.call_tool.  "tool_name not in self.tools" hashes tool_name,
\* outside the try block.
call_tool(tool_name, arguments, registry, dbm, cond) ==
    IF ~Hashable(tool_name) THEN Raise("TypeError")
    ELSE IF tool_name.type # "str" \/ tool_name.val \notin DOMAIN registry
         THEN Ret(ErrResult("Tool '" \o Str(tool_name) \o "' not found"))
    ELSE LET r == Invoke(registry[tool_name.val], arguments, dbm, cond) IN
         IF r.raised THEN Ret(ErrResult("Error executing tool: " \o r.exc))
         ELSE r

\* what the record store did for the dispatch: "none" when the dispatch
\* never reaches DatabaseManager (as with every function registered after
\* construction), else the condition of the store at the
\* call ("error" also for a LIMIT the store rejects)
StoreOutcome(tool_name, arguments, registry, dbm, cond) ==
    IF ~Hashable(tool_name) \/ tool_name.type # "str" THEN "none"
    ELSE IF tool_name.val \notin DOMAIN registry THEN "none"
    ELSE LET desc == registry[tool_name.val] IN
         IF \/ arguments.type # "dict"
            \/ dbm = "none"
         THEN "none"
         ELSE IF \/ ~(DOMAIN arguments.items \subseteq (desc.required \cup desc.optional))
                 \/ ~(desc.required \subseteq DOMAIN arguments.items)
         THEN "none"
         ELSE CASE desc.function \in {"ping", "replaced"} -> "none"
                [] desc.function = "get_employee_by_id" ->
                       IF arguments.items["employee_id"].type # "str"
                       THEN "none" ELSE cond
                [] desc.function = "search_employees" ->
                       IF /\ cond = "ok"
                          /\ "limit" \in DOMAIN arguments.items
                          /\ LimitOf(arguments.items["limit"]) < 0
                       THEN "error" ELSE cond
                [] OTHER -> cond

(***************************************************************************)
(* MultiAgentSystem._format_tool_result: the text as a sequence of words.  *)
(* Tool results are always dicts, so the non-dict branch is not modelled;  *)
(* data that is a string is the one-element sequence of that string.       *)
(***************************************************************************)
Quoted(tool_name) == "'" \o Str(tool_name) \o "'"

format_tool_result_success_only(tool_name, result) ==
    IF "success" \in result.keys /\ result.success /\ Len(result.data) > 0
    THEN <<"Tool", Quoted(tool_name), "result", ":", ToString(result.data)>>
    ELSE <<"Tool", Quoted(tool_name), "found", "no", "results", ".">>

format_tool_result(tool_name, result) ==
    IF IsErrorResult(result)
    THEN <<"Tool", Quoted(tool_name), "returned", "an", "error", ":", result.error>>
    ELSE IF "success" \in result.keys /\ result.success
    THEN IF result.data_kind = "list"
         THEN IF Len(result.data) = 0
              THEN <<"Tool", Quoted(tool_name), "found", "no", "results", ".">>
              ELSE IF Len(result.data) = 1
              THEN <<"Tool", Quoted(tool_name), "result", ":",
                     ToString(result.data[1])>>
              ELSE <<"Tool", Quoted(tool_name), "found",
                     ToString(Len(result.data)), "results", ":",
                     ToString(result.data)>>
         ELSE <<"Tool", Quoted(tool_name), "result", ":", ToString(result.data)>>
    ELSE <<"Tool", Quoted(tool_name), "result", ":", ToString(result)>>

\* "word" in text, for a text given as its words
HasWord(words, w) == \E i \in DOMAIN words : words[i] = w

(***************************************************************************)
(* MultiAgentSystem._call_ollama: net is what the HTTP exchange did, ok    *)
(* with the "response" field of the body, or a failure (connection         *)
(* refused, non-2xx, timeout), which is re-raised as Exception.            *)
(***************************************************************************)
call_ollama_swallow(net) ==
    IF net.ok THEN Ret(net.response) ELSE Ret(<<>>)

call_ollama(net) ==
    IF net.ok THEN Ret(net.response)
    ELSE [raised |-> TRUE, exc |-> "Error calling Ollama", value |-> <<>>]

\* the final-answer clean-up: re.sub drops every ```json ... ``` block and
\* everything from the first "CALL tool" on
Sanitize(response) ==
    LET i == FirstIndex({j \in DOMAIN response : IsImper(response[j])})
        kept == IF i = 0 THEN response ELSE SubSeq(response, 1, i - 1)
        notFence(seg) == ~IsFence(seg)
    IN  SelectSeq(kept, notFence)

(***************************************************************************)
(* RAGService._retrieve_relevant_chunks.  A passage and a query are        *)
(* sequences of whitespace-separated words.  Similarities are in tenths.   *)
(* The lists returned are lists of passage indices (1-based).              *)
(***************************************************************************)
MinSimilarityTenths == 1

\* the list with no [:n] applied
NoSlice(seq, n) == seq
\* seq[:n] for n >= 0
Slice(seq, n) == SubSeq(seq, 1, IF n < Len(seq) THEN n ELSE Len(seq))

\* np.argsort(similarities): the permutations that put the similarities
\* in ascending order (the order of equal similarities is the sort's own)
Argsorts(sims) ==
    {p \in Permutations(DOMAIN sims) :
        \A i, j \in DOMAIN p : i < j => sims[p[i]] <= sims[p[j]]}

\* seq[::-1]
Reverse(seq) == [i \in 1..Len(seq) |-> seq[Len(seq) + 1 - i]]

\* sum(1 for word in query_lower.split() if word in chunk.lower())
RECURSIVE KeywordScore(_, _)
KeywordScore(query, chunk) ==
    IF query = <<>> THEN 0
    ELSE (IF \E t \in DOMAIN chunk : ContainsCI(chunk[t], Head(query))
          THEN 1 ELSE 0)
         + KeywordScore(Tail(query), chunk)

KeywordScores(query, corpus) ==
    [i \in DOMAIN corpus |-> KeywordScore(query, corpus[i])]

\* scored_chunks.sort(reverse=True, key=score) over the passages of
\* positive score: stable, so equal scores keep corpus order
RECURSIVE SortDesc(_, _)
SortDesc(S, key) ==
    IF S = {} THEN <<>>
    ELSE LET top == CHOOSE i \in S :
                        \A j \in S \ {i} :
                            key[i] > key[j] \/ (key[i] = key[j] /\ i < j)
         IN  <<top>> \o SortDesc(S \ {top}, key)

RankByScore(scores) ==
    SortDesc({i \in DOMAIN scores : scores[i] > 0}, scores)

\* order is what np.argsort returned for sims (semantic mode only)
retrieve_relevant_chunks(corpus, semantic, query, max_chunks, sims, order) ==
    IF corpus = <<>> THEN <<>>
    ELSE IF semantic
    THEN LET top_indices == Slice(Reverse(order), max_chunks)
             above(i) == sims[i] > MinSimilarityTenths
         IN  SelectSeq(top_indices, above)
    ELSE Slice(RankByScore(KeywordScores(query, corpus)), max_chunks)

(***************************************************************************)
(* MultiAgentSystem.query                                                  *)
(***************************************************************************)
max_iterations == 5

\* conversation_history entries
Entry(role, text, tool, arguments, formatted) ==
    [role |-> role, text |-> text, tool |-> tool, arguments |-> arguments,
     formatted |-> formatted]
ContextEntry == Entry("Context", <<>>, None, None, <<>>)
UserEntry == Entry("User", <<>>, None, None, <<>>)
AssistantEntry(response) == Entry("Assistant", response, None, None, <<>>)
ToolEntry(tool_name, arguments, formatted) ==
    Entry("Tool", <<>>, tool_name, arguments, formatted)

NoAnswer == [kind |-> "none", text |-> <<>>, entry |-> UserEntry]
TextAnswer(text) == [kind |-> "text", text |-> text, entry |-> UserEntry]
EntryAnswer(e) == [kind |-> "entry", text |-> <<>>, entry |-> e]
\* "I apologize, but I'm having trouble processing your request."
ApologyAnswer == [kind |-> "apology", text |-> <<>>, entry |-> UserEntry]

\* what one loop iteration did
Turn(backend_failed, response, extracted, dispatched, call_raised, result, formatted, finished) ==
    [backend_failed |-> backend_failed, response |-> response,
     extracted |-> extracted, dispatched |-> dispatched,
     call_raised |-> call_raised, result |-> result, formatted |-> formatted,
     finished |-> finished]
NoTurn == Turn(FALSE, <<>>, None, FALSE, FALSE, NoResult, <<>>, FALSE)

\* the replies of the generation backend the orchestrator is run on
Replies ==
    { <<>>,
      <<Prose>>,
      <<Fence(ONested)>>,
      <<Fence(OListTool)>>,
      <<Fence(ONoTool), Imper("get_employee_by_id")>>,
      <<Bare(OPing)>>,
      <<Imper("get_employee_by_id")>>,
      <<CallTok("search_employees", << <<"search_term", "HR">> >>)>> }
NetOutcomes ==
    {[ok |-> TRUE, response |-> r] : r \in Replies}
    \cup {[ok |-> FALSE, response |-> <<>>]}

\* tool_calls_history.append({"tool": .., "arguments": .., "result": ..})
LogCall(log, tool_name, arguments, result) ==
    Append(log, [tool |-> tool_name, arguments |-> arguments, result |-> result])

\* while iteration < self.max_iterations
LoopGuardOffByOne(i) == i <= max_iterations

LoopGuard(i) == i < max_iterations

InitOrch ==
    /\ pc = "idle"
    /\ iteration = 0
    /\ conversation_history = <<>>
    /\ tool_calls_history = <<>>
    /\ final_answer = NoAnswer
    /\ outcome = ""
    /\ backend_calls = 0
    /\ dispatches = 0
    /\ turn = NoTurn
    /\ store_call = "none"
    /\ described = 0

\* query(user_query, context) entering get_tools_description: the loop
\* over self.tools.items() begins on the registry as it is then
QueryBegin ==
    /\ pc = "idle"
    /\ rag_pc \in {"off", "retrieved"}
    /\ pc' = "describe"
    /\ described' = Cardinality(DOMAIN tools)
    /\ UNCHANGED <<iteration, conversation_history, tool_calls_history,
                   final_answer, outcome, backend_calls, dispatches, turn,
                   store_call>>

\* the rest of get_tools_description and of query up to the loop.  The
\* loop over self.tools.items() holds no copy and no lock: a name added to
\* the registry while it runs makes the dict iterator raise RuntimeError
\* (dictionary changed size during iteration), which nothing in query
\* catches; a descriptor replaced under its name leaves the size as it was
QueryDescribed ==
    /\ pc = "describe"
    /\ IF Cardinality(DOMAIN tools) # described
       THEN /\ pc' = "raised"
            /\ outcome' = "RuntimeError"
            /\ UNCHANGED conversation_history
       ELSE /\ \E has_context \in BOOLEAN :
                /\ rag_pc = "retrieved" => has_context = (relevant_chunks # <<>>)
                /\ conversation_history' =
                      IF has_context THEN <<ContextEntry, UserEntry>>
                      ELSE <<UserEntry>>
            /\ pc' = "loop"
            /\ UNCHANGED outcome
    /\ described' = 0
    /\ UNCHANGED <<iteration, tool_calls_history, final_answer,
                   backend_calls, dispatches, turn, store_call>>

\* the loop's exit returning the last model reply, cleaned up
ExhaustedLastReply(history) ==
    LET isReply(e) == e.role = "Assistant"
        replies == SelectSeq(history, isReply)
    IN  IF Len(replies) > 0 THEN TextAnswer(Sanitize(replies[Len(replies)].text))
        ELSE ApologyAnswer
\* the loop's exit: conversation_history[-1] if conversation_history else
\* the apology
Exhausted(history) ==
    IF Len(history) > 0 THEN EntryAnswer(history[Len(history)])
    ELSE ApologyAnswer

\* one iteration of the loop, and the return that follows it when the
\* budget is used up
Iterate ==
    /\ pc = "loop"
    /\ LoopGuard(iteration)
    /\ iteration' = iteration + 1
    /\ backend_calls' = backend_calls + 1
    /\ UNCHANGED described
    /\ \E net \in NetOutcomes, cond \in DbConds :
        LET r == call_ollama(net) IN
        IF r.raised
        THEN /\ pc' = "raised"
             /\ outcome' = r.exc
             /\ turn' = Turn(~net.ok, <<>>, None, FALSE, FALSE, NoResult, <<>>, FALSE)
             /\ store_call' = "none"
             /\ UNCHANGED <<conversation_history, tool_calls_history,
                            final_answer, dispatches>>
        ELSE
        LET response == r.value
            hist1 == Append(conversation_history, AssistantEntry(response))
            tool_call == extract_tool_call(response, tools)
        IN  IF Truthy(tool_call) /\ HasKey(tool_call, "tool")
            THEN LET tool_name == tool_call.items["tool"]
                     arguments == DictGet(tool_call, "arguments", EmptyDict)
                     c == call_tool(tool_name, arguments, tools, db_manager, cond)
                     st == StoreOutcome(tool_name, arguments, tools, db_manager, cond)
                 IN  IF c.raised
                     THEN /\ pc' = "raised"
                          /\ outcome' = c.exc
                          /\ conversation_history' = hist1
                          /\ dispatches' = dispatches + 1
                          /\ turn' = Turn(~net.ok, response, tool_call, TRUE, TRUE,
                                          NoResult, <<>>, FALSE)
                          /\ store_call' = st
                          /\ UNCHANGED <<tool_calls_history, final_answer>>
                     ELSE LET formatted == format_tool_result(tool_name, c.value)
                              hist2 == Append(hist1,
                                         ToolEntry(tool_name, arguments, formatted))
                          IN  /\ dispatches' = dispatches + 1
                              /\ tool_calls_history' =
                                    LogCall(tool_calls_history, tool_name,
                                            arguments, c.value)
                              /\ conversation_history' = hist2
                              /\ turn' = Turn(~net.ok, response, tool_call, TRUE,
                                              FALSE, c.value, formatted, FALSE)
                              /\ store_call' = st
                              /\ IF LoopGuard(iteration')
                                 THEN /\ pc' = "loop"
                                      /\ UNCHANGED <<final_answer, outcome>>
                                 ELSE /\ pc' = "done"
                                      /\ outcome' = "degraded"
                                      /\ final_answer' = Exhausted(hist2)
            ELSE /\ pc' = "done"
                 /\ outcome' = "direct"
                 /\ final_answer' = TextAnswer(Sanitize(response))
                 /\ conversation_history' = hist1
                 /\ turn' = Turn(~net.ok, response, tool_call, FALSE, FALSE,
                                 NoResult, <<>>, TRUE)
                 /\ store_call' = "none"
                 /\ UNCHANGED <<tool_calls_history, dispatches>>

(***************************************************************************)
(* RAGService.query on the multi-agent path, and the POST /query handler   *)
(* that calls it.  The service has its store connected (so multi_agent     *)
(* exists) and retrieves in fallback mode.  Passages and context strings   *)
(* are sequences of words.                                                 *)
(***************************************************************************)
DefaultMaxChunks == 3

ServiceCorpus ==
    << <<"Payroll", "payday">>, <<"Database", "Query", "Result", "Vacation">> >>
ServiceQueries == { <<"payday">>, <<"vacation">> }

\* "Database Query Result" in chunk
QueryResultMark == <<"Database", "Query", "Result">>
HasMark(chunk) == IsSubstr(QueryResultMark, chunk)

\* _format_tool_result_for_chunks: the rendering of one tool call, or None
NoRendering == [some |-> FALSE, text |-> <<>>]
Rendering(text) == [some |-> TRUE, text |-> text]
format_tool_result_for_chunks(tool_call) ==
    LET tool_name == Str(tool_call.tool)
        result == tool_call.result
    IN  IF "success" \in result.keys /\ result.success
        THEN IF result.data_kind = "list" /\ Len(result.data) > 0
             THEN IF Len(result.data) = 1
                  THEN Rendering(QueryResultMark \o
                           <<"-", tool_name, ":", "EmployeeID", ":",
                             result.data[1].EmployeeID, "Name", ":",
                             result.data[1].Name, "Department", ":",
                             result.data[1].Department>>)
                  ELSE Rendering(QueryResultMark \o
                           <<"-", tool_name, ":", "Found",
                             ToString(Len(result.data)), "employees">>)
             ELSE IF result.data_kind = "dict"
                  THEN Rendering(QueryResultMark \o
                           <<"-", tool_name, ":", ToString(result.data[1])>>)
                  ELSE NoRendering
        ELSE NoRendering

\* the loop over tool_calls: the renderings that are not None, in order
RECURSIVE RenderedCalls(_)
RenderedCalls(log) ==
    IF Len(log) = 0 THEN <<>>
    ELSE LET r == format_tool_result_for_chunks(Head(log)) IN
         (IF r.some THEN <<r.text>> ELSE <<>>) \o RenderedCalls(Tail(log))

\* any("Database Query Result" in chunk for chunk in relevant_chunks)
ToolCallsUsed(context) == \E i \in DOMAIN context : HasMark(context[i])

\* POST /query up to the call of multi_agent.query: the readiness check,
\* then retrieval of the passages that make the context
RagQueryBegin ==
    /\ pc = "idle"
    /\ rag_pc = "request"
    /\ db_manager = "set"
    /\ loaded
    /\ \E q \in ServiceQueries :
        LET found == retrieve_relevant_chunks(chunks, FALSE, q, DefaultMaxChunks,
                                              <<>>, <<>>)
        IN  /\ rag_query' = q
            /\ relevant_chunks' = [i \in DOMAIN found |-> chunks[found[i]]]
    /\ rag_pc' = "retrieved"
    /\ UNCHANGED <<formatted_chunks, tool_calls_used, http_status>>

\* multi_agent.query returned: the context list and the response
RagQueryEnd ==
    /\ rag_pc = "retrieved"
    /\ pc = "done"
    /\ formatted_chunks' = relevant_chunks \o RenderedCalls(tool_calls_history)
    /\ tool_calls_used' = ToolCallsUsed(formatted_chunks')
    /\ http_status' = 200
    /\ rag_pc' = "answered"
    /\ UNCHANGED <<rag_query, relevant_chunks>>

\* multi_agent.query raised: the handler answers with status 500
RagQueryFail ==
    /\ rag_pc = "retrieved"
    /\ pc = "raised"
    /\ http_status' = 500
    /\ rag_pc' = "failed"
    /\ UNCHANGED <<rag_query, relevant_chunks, formatted_chunks, tool_calls_used>>

InitRegistry ==
    /\ tools = RegisteredTools
    /\ db_manager \in {"set", "none"}

\* tool_registry.register_tool(name, description, parameters, function):
\* it has no precondition and takes no lock, so another caller may
\* register at any moment, also between two iterations of a running query.
\* A registration adds a name or replaces a descriptor and never removes
\* a name, so what one iteration reads of the registry (the membership
\* tests of _extract_tool_call and call_tool and the descriptor call_tool
\* fetches) is what it would read in one look at the registry
RegisterTool ==
    /\ \E desc \in RegistrableTools :
          /\ Registrations(register_tool(tools, desc)) <= MaxRegistrations
          /\ tools' = register_tool(tools, desc)

InitRagIdle ==
    /\ rag_pc = "off"
    /\ rag_query = <<>>
    /\ relevant_chunks = <<>>
    /\ formatted_chunks = <<>>
    /\ tool_calls_used = FALSE
    /\ http_status = 0
\* the service after a load in which no embedding model was available
InitService ==
    /\ chunks = ServiceCorpus
    /\ embeddings = "none"
    /\ embedding_model = "none"
    /\ rt_query = <<>>
    /\ rt_k = 0
    /\ rt_scores = <<>>
    /\ rt_result = <<>>
    /\ rt_pc = "off"
    /\ loaded = TRUE
    /\ ld_file = "present"
    /\ ld_text = <<>>
    /\ ld_pc = "off"
InitDeptIdle ==
    /\ dp_table = <<>>
    /\ dp_department = ""
    /\ dp_result = NoResult
    /\ dp_pc = "off"
InitReloadIdle ==
    /\ embedded = <<>>
    /\ rt_mode = ""
    /\ rt_top = <<>>
    /\ rt_rows = <<>>
    /\ rt_chunks = <<>>
    /\ last_load = "none"
    /\ load_mode = "none"
InitExtractIdle ==
    /\ ex_text = <<>>
    /\ ex_result = None
    /\ ex_pc = "off"
InitRetrieveIdle ==
    /\ chunks = <<>>
    /\ embeddings = "none"
    /\ embedding_model = "none"
    /\ rt_query = <<>>
    /\ rt_k = 0
    /\ rt_scores = <<>>
    /\ rt_result = <<>>
    /\ rt_pc = "off"
InitLoadIdle ==
    /\ loaded = FALSE
    /\ ld_file = "present"
    /\ ld_text = <<>>
    /\ ld_pc = "off"

Init ==
    /\ InitRegistry
    /\ InitOrch
    /\ InitRagIdle
    /\ InitDeptIdle
    /\ InitReloadIdle
    /\ InitExtractIdle
    /\ InitService

Next ==
    \/ RegisterTool /\ UNCHANGED <<db_manager, orch_vars, rag_vars, ex_vars, rt_vars, ld_vars, rl_vars, dp_vars>>
    \/ QueryBegin /\ UNCHANGED <<tools, db_manager, rag_vars, ex_vars, rt_vars, ld_vars, rl_vars, dp_vars>>
    \/ QueryDescribed /\ UNCHANGED <<tools, db_manager, rag_vars, ex_vars, rt_vars, ld_vars, rl_vars, dp_vars>>
    \/ Iterate /\ UNCHANGED <<tools, db_manager, rag_vars, ex_vars, rt_vars, ld_vars, rl_vars, dp_vars>>

Spec == Init /\ [][Next]_vars

\* a POST /query request received by the service of main.py, its store
\* connected and its documents loaded
InitQueryService ==
    /\ tools = RegisteredTools
    /\ db_manager = "set"
    /\ InitOrch
    /\ rag_pc = "request"
    /\ rag_query = <<>>
    /\ relevant_chunks = <<>>
    /\ formatted_chunks = <<>>
    /\ tool_calls_used = FALSE
    /\ http_status = 0
    /\ InitDeptIdle
    /\ InitReloadIdle
    /\ InitExtractIdle
    /\ InitService

NextService ==
    \/ RegisterTool /\ UNCHANGED <<db_manager, orch_vars, rag_vars, ex_vars, rt_vars, ld_vars, rl_vars, dp_vars>>
    \/ RagQueryBegin /\ UNCHANGED <<tools, db_manager, orch_vars, ex_vars, rt_vars, ld_vars, rl_vars, dp_vars>>
    \/ QueryBegin /\ UNCHANGED <<tools, db_manager, rag_vars, ex_vars, rt_vars, ld_vars, rl_vars, dp_vars>>
    \/ QueryDescribed /\ UNCHANGED <<tools, db_manager, rag_vars, ex_vars, rt_vars, ld_vars, rl_vars, dp_vars>>
    \/ Iterate /\ UNCHANGED <<tools, db_manager, rag_vars, ex_vars, rt_vars, ld_vars, rl_vars, dp_vars>>
    \/ RagQueryEnd /\ UNCHANGED <<tools, db_manager, orch_vars, ex_vars, rt_vars, ld_vars, rl_vars, dp_vars>>
    \/ RagQueryFail /\ UNCHANGED <<tools, db_manager, orch_vars, ex_vars, rt_vars, ld_vars, rl_vars, dp_vars>>

SpecService == InitQueryService /\ [][NextService]_vars

(***************************************************************************)
(* Properties of MultiAgentSystem.query                                    *)
(***************************************************************************)
IsDirective(d) == Truthy(d) /\ HasKey(d, "tool")
Returned == pc \in {"done", "raised"}
LastEntry == conversation_history[Len(conversation_history)]
LastCall == tool_calls_history[Len(tool_calls_history)]
\* the last iteration received a reply from the backend
ReplyHandled == backend_calls > 0 /\ ~turn.backend_failed

\* C1: query terminates within the iteration budget: it never makes more
\* than max_iterations backend calls or tool dispatches, every iteration
\* makes one backend call, and the loop is never left waiting once the
\* budget is used up.
C1_TerminatesWithinBudget ==
    /\ backend_calls <= max_iterations
    /\ dispatches <= max_iterations
    /\ backend_calls = iteration
    /\ dispatches <= backend_calls
    /\ pc = "loop" => iteration < max_iterations

\* five replies, each with a directive, not all naming the same tool
C1_Witness ==
    /\ pc = "done"
    /\ backend_calls = max_iterations
    /\ dispatches = max_iterations
    /\ tool_calls_history[1].tool # tool_calls_history[max_iterations].tool

\* C2: directive errors never propagate out of query: a dispatch never
\* makes the query raise, and a directive that names no registered tool or
\* carries arguments the tool rejects yields an error result that is the
\* last entry of the tool-call log and of the conversation history.
C2_DirectiveErrorsNeverPropagate ==
    turn.dispatched =>
        /\ pc # "raised"
        /\ (\/ turn.extracted.items["tool"].type # "str"
            \/ turn.extracted.items["tool"].val \notin DOMAIN tools
            \/ DictGet(turn.extracted, "arguments", EmptyDict).type # "dict")
           => /\ IsErrorResult(LastCall.result)
              /\ LastEntry.role = "Tool"
              /\ HasWord(LastEntry.formatted, "error")

\* C3: call_tool never raises, returns an error result for a name that is
\* not registered, and leaves the registry as it was before the call.
C3_CallToolNeverRaises ==
    /\ [](turn.dispatched =>
            /\ ~turn.call_raised
            /\ (\/ turn.extracted.items["tool"].type # "str"
                \/ turn.extracted.items["tool"].val \notin DOMAIN tools)
               => IsErrorResult(turn.result))
    /\ [][dispatches' # dispatches => tools' = tools]_vars

\* C4: a failed backend call is terminal and never retried: the step in
\* which the backend fails ends the query with the backend's error, and
\* from then on no backend call and no dispatch is made.
C4_BackendFailureTerminal ==
    [][/\ turn'.backend_failed =>
            (pc' = "raised" /\ outcome' = "Error calling Ollama")
       /\ turn.backend_failed =>
            (backend_calls' = backend_calls /\ dispatches' = dispatches)]_vars

\* the backend failed after two dispatches
C4_Witness ==
    /\ turn.backend_failed
    /\ pc = "raised"
    /\ backend_calls = 3
    /\ dispatches = 2

\* every reply received so far held a tool directive
AllRepliesDirective ==
    \A i \in DOMAIN conversation_history :
        conversation_history[i].role = "Assistant" =>
            IsDirective(extract_tool_call(conversation_history[i].text, tools))

\* C5: when every reply holds a directive, the query makes exactly 5
\* prompting turns and returns normally the last conversation entry as a
\* degraded answer, with a tool-call log of at most 5 entries.
C5_AlwaysDirectiveDegrades ==
    (Returned /\ ReplyHandled /\ AllRepliesDirective) =>
        /\ pc = "done"
        /\ outcome = "degraded"
        /\ backend_calls = max_iterations
        /\ final_answer = EntryAnswer(LastEntry)
        /\ Len(tool_calls_history) <= max_iterations

\* C6: in every prompting turn a tool is dispatched iff the extractor
\* returns a non-none result, and the query finishes with a direct answer
\* in that turn iff the extractor returns none.
C6_DispatchIffDirective ==
    ReplyHandled =>
        /\ turn.dispatched <=> ~IsNone(turn.extracted)
        /\ turn.finished <=> IsNone(turn.extracted)

\* C7 as stated: whenever a dispatched tool returns an error result, the
\* formatted result holds the word "error" and the orchestrator goes on to
\* one more prompting turn.
C7_ErrorResultAlwaysReprompts ==
    (turn.dispatched /\ ~turn.call_raised /\ IsErrorResult(turn.result)) =>
        /\ HasWord(turn.formatted, "error")
        /\ pc = "loop"
        /\ ENABLED Iterate

\* C7, amended: whenever a dispatched tool returns an error result, the
\* formatted result holds the word "error"; if fewer than 5 prompting
\* turns have been made the orchestrator goes on to one more prompting
\* turn, and after the 5th it returns instead, the last history entry (the
\* one recording that tool result) being the degraded answer.
C7_ErrorResultRepromptsWithinBudget ==
    (turn.dispatched /\ ~turn.call_raised /\ IsErrorResult(turn.result)) =>
        /\ HasWord(turn.formatted, "error")
        /\ HasWord(LastEntry.formatted, "error")
        /\ iteration < max_iterations => (pc = "loop" /\ ENABLED Iterate)
        /\ iteration = max_iterations =>
              /\ pc = "done"
              /\ outcome = "degraded"
              /\ LastEntry.role = "Tool"
              /\ final_answer = EntryAnswer(LastEntry)

\* a lookup that found no employee, {success: false, error: ...}, with
\* budget left
C7_Witness ==
    /\ turn.dispatched
    /\ turn.result.keys = {"success", "error"}
    /\ ~turn.result.success
    /\ iteration < max_iterations
    /\ pc = "loop"

\* C21: on budget exhaustion the answer is the conversation entry that
\* records the fifth tool dispatch (its tool, its arguments and the
\* formatted text of its result): it is the last conversation entry, never
\* a model reply or a cleaned-up text, and no execution ever returns the
\* apology.
C21_ExhaustionReturnsLastToolEntry ==
    /\ final_answer.kind # "apology"
    /\ (pc = "done" /\ outcome = "degraded") =>
          /\ dispatches = max_iterations
          /\ Len(tool_calls_history) = max_iterations
          /\ final_answer.kind = "entry"
          /\ final_answer.entry.role = "Tool"
          /\ final_answer = EntryAnswer(LastEntry)
          /\ final_answer.entry.tool = LastCall.tool
          /\ final_answer.entry.arguments = LastCall.arguments
          /\ final_answer.entry.formatted =
                format_tool_result(LastCall.tool, LastCall.result)
          /\ final_answer.entry.formatted = turn.formatted

\* exhaustion after a fifth dispatch that found the employee, the fourth
\* having returned an error result
C21_Witness ==
    /\ pc = "done"
    /\ outcome = "degraded"
    /\ final_answer.kind = "entry"
    /\ "success" \in LastCall.result.keys
    /\ LastCall.result.success
    /\ IsErrorResult(tool_calls_history[max_iterations - 1].result)
    /\ final_answer.entry.formatted # <<>>

(***************************************************************************)
(* Properties of the context list, the tool_calls_used flag and the        *)
(* handling of record-store failures                                       *)
(***************************************************************************)
\* C11: the context list returned on the multi-agent path is the retrieved
\* passages in retrieval order followed by exactly one rendered entry for
\* each tool call the orchestrator executed, in execution order, whatever
\* the call's result was.
C11_OneEntryPerToolCall ==
    rag_pc = "answered" =>
        LET n == Len(relevant_chunks) IN
        /\ Len(formatted_chunks) = n + Len(tool_calls_history)
        /\ SubSeq(formatted_chunks, 1, n) = relevant_chunks
        /\ \A i \in DOMAIN tool_calls_history :
              /\ HasMark(formatted_chunks[n + i])
              /\ formatted_chunks[n + i][5] = Str(tool_calls_history[i].tool)

\* C12: the tool_calls_used flag of the response is true iff the
\* orchestrator executed at least one tool call while answering the query.
C12_FlagIffToolCalled ==
    rag_pc = "answered" => (tool_calls_used <=> Len(tool_calls_history) > 0)

\* the result reports a lookup that found nothing
IsNotFoundResult(r) == "success" \in r.keys /\ ~r.success /\ "error" \in r.keys
\* the result is a success, with or without records
IsSuccessResult(r) == "success" \in r.keys /\ r.success

\* C13: a record-store call that fails during a query makes the query fail
\* and is never reported as a successful result, an empty result or a
\* "not found" result.
C13_StoreFailureSurfaced ==
    (turn.dispatched /\ store_call \in {"error", "crash"}) =>
        /\ ~IsSuccessResult(turn.result)
        /\ ~IsNotFoundResult(turn.result)
        /\ pc = "raised"

\* the entries of the conversation history that record tool results
ToolEntries == SelectSeq(conversation_history, LAMBDA e : e.role = "Tool")

\* C20: at every point the tool-call log holds exactly one entry per
\* dispatch made so far (a dispatch is a call of call_tool), in dispatch
\* order; a query that returns a direct answer after n backend calls,
\* 1 <= n <= 5, has a log of n - 1 entries, and one that returns on budget
\* exhaustion has a log of exactly 5 entries.
C20_LogAccounting ==
    /\ Len(tool_calls_history) = dispatches
    /\ Len(tool_calls_history) = Len(ToolEntries)
    /\ \A i \in DOMAIN tool_calls_history :
          /\ tool_calls_history[i].tool = ToolEntries[i].tool
          /\ tool_calls_history[i].arguments = ToolEntries[i].arguments
    /\ (pc = "done" /\ outcome = "direct") =>
          /\ backend_calls \in 1..max_iterations
          /\ Len(tool_calls_history) = backend_calls - 1
    /\ (pc = "done" /\ outcome = "degraded") =>
          Len(tool_calls_history) = max_iterations

(***************************************************************************)
(* _extract_tool_call applied to every text of up to MaxSegs segments      *)
(***************************************************************************)
MaxSegs == 3

SearchKv == << <<"search_term", "HR">> >>

ExtractSegments ==
    { Prose,
      Fence(ONested), Fence(OFlat), Fence(ONoTool), Fence(OBad),
      Fence(ONullTool),
      Bare(ONested), Bare(OFlat), Bare(OBadTool),
      Imper("get_employee_by_id"), Imper("lookup"),
      ImperArgs("get_employee_by_id", ONoTool),
      ImperArgs("get_employee_by_id", ONestedArgs),
      ImperArgs("get_employee_by_id", OBad),
      CallTok("search_employees", SearchKv),
      CallTok("search_employees", <<>>),
      CallTok("lookup", OneKv),
      CallTok("ping", OneKv) }

Texts == UNION {[1..n -> ExtractSegments] : n \in 0..MaxSegs}

InitExtract ==
    /\ tools = RegisteredTools
    /\ db_manager = "set"
    /\ InitOrch
    /\ InitRagIdle
    /\ InitDeptIdle
    /\ InitReloadIdle
    /\ InitRetrieveIdle
    /\ InitLoadIdle
    /\ ex_text \in Texts
    /\ ex_result = None
    /\ ex_pc = "ready"

Extract ==
    /\ ex_pc = "ready"
    /\ ex_result' = extract_tool_call(ex_text, tools)
    /\ ex_pc' = "done"
    /\ UNCHANGED <<ex_text, tools, db_manager, orch_vars, rag_vars, rt_vars, ld_vars, rl_vars, dp_vars>>

NextExtract ==
    \/ RegisterTool /\ UNCHANGED <<db_manager, orch_vars, rag_vars, ex_vars, rt_vars, ld_vars, rl_vars, dp_vars>>
    \/ Extract

SpecExtract == InitExtract /\ [][NextExtract]_vars

\* the text's structure, read off its segments
FencedDirectiveAt(text, i) ==
    /\ IsFence(text[i])
    /\ text[i].obj.valid
    /\ HasKey(text[i].obj.value, "tool")
HasRegisteredCallToken(text) ==
    \E j \in DOMAIN text :
        IsCallTok(text[j]) /\ text[j].name \in DOMAIN tools /\ Len(text[j].kv) > 0

\* what C8 says of a finished extraction, read against the registry of
\* that state
FencedDirectiveWins ==
    (/\ ex_pc = "done"
     /\ \E i \in DOMAIN ex_text : FencedDirectiveAt(ex_text, i)
     /\ \A i \in DOMAIN ex_text :
            (IsFence(ex_text[i]) /\ ex_text[i].obj.valid)
                => FencedDirectiveAt(ex_text, i)
     /\ HasRegisteredCallToken(ex_text))
    => \E i \in DOMAIN ex_text :
           FencedDirectiveAt(ex_text, i) /\ ex_result = ex_text[i].obj.value

\* C8: the syntaxes are tried in the order fenced block, bare object,
\* imperative phrase, call-syntax token and the first that parses gives the
\* result: for a text holding a fenced json block with a directive and a
\* call-syntax token naming a registered tool, the directive of a fenced
\* block is returned.  (Stated for the texts in which every fenced block
\* that parses holds a directive.)
\* The registry is the one the extraction ran on: the statement is about
\* the state in which _extract_tool_call returns.
C8_AnyFencedDirectiveWins ==
    [][(ex_pc = "ready" /\ ex_pc' = "done") => FencedDirectiveWins']_vars

\* a fenced block or bare object that yields no directive: it is invalid
\* JSON or the object it holds has no "tool" key
FailedObjectAt(text, i) ==
    /\ text[i].kind \in {"fence", "bare"}
    /\ ~(text[i].obj.valid /\ HasKey(text[i].obj.value, "tool"))
\* an object text, fenced or bare, that parses to an object with a "tool" key
ObjectDirectiveAt(text, i) ==
    /\ text[i].kind \in {"fence", "bare"}
    /\ text[i].obj.valid
    /\ HasKey(text[i].obj.value, "tool")
RegisteredCallTokenAt(text, i) ==
    IsCallTok(text[i]) /\ text[i].name \in DOMAIN tools /\ Len(text[i].kv) > 0
\* some candidate of the text yields a directive
SomeCandidateYields(text) ==
    \E i \in DOMAIN text :
        \/ ObjectDirectiveAt(text, i)
        \/ IsImper(text[i])
        \/ RegisteredCallTokenAt(text, i)

\* what C16 says of a finished extraction, read against the registry of
\* that state
FailedCandidateFallsThrough ==
    ex_pc = "done" =>
        /\ (/\ \E i \in DOMAIN ex_text : FailedObjectAt(ex_text, i)
            /\ \E j \in DOMAIN ex_text :
                  IsImper(ex_text[j]) \/ RegisteredCallTokenAt(ex_text, j))
           => IsDirective(ex_result)
        /\ IsNone(ex_result) => ~SomeCandidateYields(ex_text)

\* C16: a candidate that yields no directive does not stop extraction: for
\* a text holding a fenced block or bare object that is invalid JSON or has
\* no "tool" key, and also an imperative phrase or a call-syntax token
\* naming a registered tool, the result is a directive; and the result is
\* none only when no candidate of the text yields a directive.
\* The registry is the one the extraction ran on: the statement is about
\* the state in which _extract_tool_call returns.
C16_FailedCandidateFallsThrough ==
    [][(ex_pc = "ready" /\ ex_pc' = "done") => FailedCandidateFallsThrough']_vars

(***************************************************************************)
(* _retrieve_relevant_chunks applied to every corpus, query and k in bounds *)
(***************************************************************************)
MaxChunks == 3
MaxQueryWords == 3
MaxK == 2

Passages == { <<"Payroll", "payday">>, <<"Vacation", "Pay">>, <<"Vacation">> }
QueryWords == {"pay", "Payday", "vacation"}
SimValues == {1, 2, 5}
Corpora == UNION {[1..n -> Passages] : n \in 0..MaxChunks}
Queries == UNION {[1..n -> QueryWords] : n \in 0..MaxQueryWords}

\* a loaded service: the corpus, and whether the embedding model loaded
InitRetrieve ==
    /\ tools = RegisteredTools
    /\ db_manager = "set"
    /\ InitOrch
    /\ InitRagIdle
    /\ InitDeptIdle
    /\ InitExtractIdle
    /\ ld_file = "present"
    /\ ld_text = <<>>
    /\ ld_pc = "off"
    /\ loaded = TRUE
    /\ chunks \in Corpora
    /\ \/ embedding_model = "loaded" /\ embeddings = "set" /\ embedded = chunks
       \/ embedding_model = "none" /\ embeddings = "none" /\ embedded = <<>>
    /\ rt_mode = ""
    /\ rt_top = <<>>
    /\ rt_rows = <<>>
    /\ rt_chunks = <<>>
    /\ last_load = "found"
    /\ load_mode = IF embedding_model = "loaded" THEN "semantic" ELSE "fallback"
    /\ rt_query = <<>>
    /\ rt_k = 0
    /\ rt_scores = <<>>
    /\ rt_result = <<>>
    /\ rt_pc = "ready"

\* self.embedding_model is not None and self.embeddings is not None
SemanticMode == embedding_model # "none" /\ embeddings # "none"

\* semantic mode: the query acts only through the similarities of its
\* encoding to the passages' embeddings, so these stand for it
RetrieveSemantic ==
    /\ rt_pc = "ready"
    /\ SemanticMode
    /\ \E k \in 0..MaxK, sims \in [DOMAIN chunks -> SimValues] :
        \E order \in Argsorts(sims) :
            /\ rt_k' = k
            /\ rt_scores' = sims
            /\ rt_result' =
                  retrieve_relevant_chunks(chunks, TRUE, rt_query, k, sims, order)
    /\ rt_pc' = "done"
    /\ UNCHANGED <<chunks, embeddings, embedding_model, rt_query>>

RetrieveFallback ==
    /\ rt_pc = "ready"
    /\ ~SemanticMode
    /\ \E k \in 0..MaxK, q \in Queries :
        /\ rt_k' = k
        /\ rt_query' = q
        /\ rt_scores' = KeywordScores(q, chunks)
        /\ rt_result' = retrieve_relevant_chunks(chunks, FALSE, q, k, <<>>, <<>>)
    /\ rt_pc' = "done"
    /\ UNCHANGED <<chunks, embeddings, embedding_model>>

NextRetrieve ==
    \/ RetrieveSemantic /\ UNCHANGED <<tools, db_manager, orch_vars, rag_vars, ex_vars, ld_vars, rl_vars, dp_vars>>
    \/ RetrieveFallback /\ UNCHANGED <<tools, db_manager, orch_vars, rag_vars, ex_vars, ld_vars, rl_vars, dp_vars>>

SpecRetrieve == InitRetrieve /\ [][NextRetrieve]_vars

\* C9: for any query and k >= 0, at most k passages are returned, they are
\* passages of the corpus, each returned once, in order of descending
\* score under the active mode (cosine similarity, or the word-match
\* count), and nothing is returned when the corpus is empty.
C9_AtMostKDescending ==
    rt_pc = "done" =>
        /\ Len(rt_result) <= rt_k
        /\ \A i \in DOMAIN rt_result : rt_result[i] \in DOMAIN chunks
        /\ \A i, j \in DOMAIN rt_result :
              i < j => /\ rt_result[i] # rt_result[j]
                       /\ rt_scores[rt_result[i]] >= rt_scores[rt_result[j]]
        /\ chunks = <<>> => rt_result = <<>>

\* three passages, k = 2: two are returned, the better one first
C9_Witness ==
    /\ rt_pc = "done"
    /\ Len(chunks) = 3
    /\ rt_k = 2
    /\ Len(rt_result) = 2
    /\ rt_scores[rt_result[1]] > rt_scores[rt_result[2]]
    /\ rt_result[1] > rt_result[2]

\* the query words a passage contains, each counted once
DistinctMatches(query, chunk) ==
    {Lower(query[i]) : i \in {j \in DOMAIN query :
        \E t \in DOMAIN chunk : ContainsCI(chunk[t], query[j])}}

\* C17: in fallback mode the passages are ranked by the number of distinct
\* query words they contain (a word repeated in the query counted once):
\* every passage returned contains a query word, the passages returned are
\* in descending order of that number with equal numbers in corpus order,
\* and a passage left out ranks below every passage returned.
C17_FallbackRanksByDistinctWords ==
    (rt_pc = "done" /\ ~SemanticMode) =>
        LET d == [i \in DOMAIN chunks |->
                     Cardinality(DistinctMatches(rt_query, chunks[i]))]
            before(i, j) == d[i] > d[j] \/ (d[i] = d[j] /\ i < j)
            returned == {rt_result[i] : i \in DOMAIN rt_result}
            matching == {i \in DOMAIN chunks : d[i] > 0}
        IN  /\ returned \subseteq matching
            /\ \A i \in DOMAIN rt_scores : rt_scores[i] = d[i]
            /\ \A i, j \in DOMAIN rt_result :
                  i < j => before(rt_result[i], rt_result[j])
            /\ \A i \in returned, j \in matching \ returned : before(i, j)
            /\ Cardinality(returned) =
                  IF rt_k < Cardinality(matching) THEN rt_k
                  ELSE Cardinality(matching)

(***************************************************************************)
(* RAGService.load_documents.  The knowledge text is a sequence of         *)
(* blank-line-separated blocks; a block is a sequence of sentences joined  *)
(* by ". " (no block: whitespace only); a sentence is n words of w         *)
(* characters each, separated by single spaces.  A passage is modelled by  *)
(* its length in characters and its number of words.                       *)
(***************************************************************************)
MinChunkLen == 50
MaxChunkLen == 1000
WindowWords == 500

Min(a, b) == IF a < b THEN a ELSE b
Max(a, b) == IF a > b THEN a ELSE b

\* len(" ".join(words)) of one sentence
SentenceLen(sn) == sn.n * sn.w + (sn.n - 1)

RECURSIVE SumSentenceLens(_)
SumSentenceLens(sents) ==
    IF sents = <<>> THEN 0
    ELSE SentenceLen(Head(sents)) + SumSentenceLens(Tail(sents))

\* len(chunk) of the sentences joined by ". "
ChunkLen(sents) ==
    IF sents = <<>> THEN 0 ELSE SumSentenceLens(sents) + 2 * (Len(sents) - 1)

RECURSIVE WordCount(_)
WordCount(sents) ==
    IF sents = <<>> THEN 0 ELSE Head(sents).n + WordCount(Tail(sents))

\* the characters of words a..b of chunk.split(), the first word of sents
\* being word offset + 1; the last word of every sentence but the last
\* carries the sentence's period
RECURSIVE WordChars(_, _, _, _)
WordChars(sents, offset, a, b) ==
    IF sents = <<>> THEN 0
    ELSE LET sn == Head(sents)
             lo == Max(a, offset + 1)
             hi == Min(b, offset + sn.n)
             cnt == IF hi >= lo THEN hi - lo + 1 ELSE 0
             dot == IF Len(sents) > 1 /\ a <= offset + sn.n /\ offset + sn.n <= b
                    THEN 1 ELSE 0
         IN  cnt * sn.w + dot + WordChars(Tail(sents), offset + sn.n, a, b)

Passage(len, words) == [len |-> len, words |-> words]

\* " ".join(words[i:i+500]) for i in range(0, len(words), 500)
RECURSIVE Windows(_, _)
Windows(sents, i) ==
    LET total == WordCount(sents) IN
    IF i >= total THEN <<>>
    ELSE LET last == Min(i + WindowWords, total)
             len == WordChars(sents, 0, i + 1, last) + (last - i - 1)
         IN  <<Passage(len, last - i)>> \o Windows(sents, i + WindowWords)

\* the body of the loop over chunks: skip, split or keep
SizeChunk(sents) ==
    IF ChunkLen(sents) < MinChunkLen THEN <<>>
    ELSE IF ChunkLen(sents) > MaxChunkLen THEN Windows(sents, 0)
    ELSE <<Passage(ChunkLen(sents), WordCount(sents))>>

RECURSIVE SizeChunks(_)
SizeChunks(cs) ==
    IF cs = <<>> THEN <<>> ELSE SizeChunk(Head(cs)) \o SizeChunks(Tail(cs))

\* text.split("\n\n") with the empty blocks dropped; a single block is
\* split again at its periods
SplitText(text) ==
    LET nonempty(b) == b # <<>>
        blocks == SelectSeq(text, nonempty)
    IN  IF Len(blocks) = 1
        THEN [i \in DOMAIN blocks[1] |-> <<blocks[1][i]>>]
        ELSE blocks

\* final_chunks of load_documents
load_chunks(text) == SizeChunks(SplitText(text))

MaxBlocks == 2

SentenceShapes ==
    { [n |-> 5, w |-> 4], [n |-> 10, w |-> 5], [n |-> 1000, w |-> 1],
      [n |-> 501, w |-> 1], [n |-> 167, w |-> 5] }
Blocks ==
    {<<>>} \cup {<<a>> : a \in SentenceShapes}
           \cup {<<a, b>> : a \in SentenceShapes, b \in SentenceShapes}
KnowledgeTexts == UNION {[1..n -> Blocks] : n \in 0..MaxBlocks}

\* a constructed service and the knowledge file it will read
InitLoad ==
    /\ tools = RegisteredTools
    /\ db_manager = "set"
    /\ InitOrch
    /\ InitRagIdle
    /\ InitDeptIdle
    /\ InitReloadIdle
    /\ InitExtractIdle
    /\ chunks = <<>>
    /\ embeddings = "none"
    /\ embedding_model = "none"
    /\ rt_query = <<>>
    /\ rt_k = 0
    /\ rt_scores = <<>>
    /\ rt_result = <<>>
    /\ rt_pc = "off"
    /\ loaded = FALSE
    /\ ld_file \in {"present", "missing"}
    /\ ld_text \in KnowledgeTexts
    /\ ld_pc = "ready"

\* load_documents: FileNotFoundError when the file is missing; otherwise
\* the passages replace self.chunks, then the embedding model is loaded
\* and the passages encoded, or retrieval falls back to text matching
LoadDocuments ==
    /\ ld_pc = "ready"
    /\ IF ld_file = "missing"
       THEN /\ ld_pc' = "raised"
            /\ last_load' = "missing"
            /\ UNCHANGED <<chunks, embeddings, embedding_model, loaded,
                           embedded, load_mode>>
       ELSE /\ chunks' = load_chunks(ld_text)
            /\ \E embedding_ok \in BOOLEAN :
                  IF embedding_ok
                  THEN /\ embedding_model' = "loaded"
                       /\ embeddings' = "set"
                       /\ embedded' = chunks'
                       /\ load_mode' = "semantic"
                  ELSE /\ embedding_model' = "none"
                       /\ load_mode' = "fallback"
                       /\ UNCHANGED <<embeddings, embedded>>
            /\ loaded' = TRUE
            /\ last_load' = "found"
            /\ ld_pc' = "done"
    /\ UNCHANGED <<ld_file, ld_text, rt_query, rt_k, rt_scores, rt_result, rt_pc,
                   rt_mode, rt_top, rt_rows, rt_chunks>>

NextLoad ==
    LoadDocuments /\ UNCHANGED <<tools, db_manager, orch_vars, rag_vars, ex_vars, dp_vars>>

SpecLoad == InitLoad /\ [][NextLoad]_vars

\* C10: for a knowledge text with at least one blank-line-separated block
\* of 50 characters or more, load_documents yields at least one passage
\* and every passage, the word windows of an over-long block included, is
\* 50 to 1000 characters long.
C10_PassageLengthsInRange ==
    (/\ ld_pc = "done"
     /\ \E i \in DOMAIN ld_text : ChunkLen(ld_text[i]) >= MinChunkLen)
    => /\ chunks # <<>>
       /\ \A i \in DOMAIN chunks :
              MinChunkLen <= chunks[i].len /\ chunks[i].len <= MaxChunkLen

(***************************************************************************)
(* load_documents and _retrieve_relevant_chunks of one RAGService, one     *)
(* step for each assignment to and each read of a field of the service.    *)
(* The service holds no lock, so a retrieval running in another thread may *)
(* take its steps between the steps of a load.  The knowledge file may be  *)
(* edited or removed between loads.                                        *)
(***************************************************************************)
ReloadTexts ==
    { <<>>,
      << <<[n |-> 10, w |-> 5]>>, <<>> >>,
      << <<[n |-> 10, w |-> 5]>>, <<[n |-> 5, w |-> 4], [n |-> 10, w |-> 5]>> >>,
      << <<[n |-> 501, w |-> 1]>>, <<[n |-> 10, w |-> 5]>> >> }
ReloadSims == {1, 5}
MaxReloadK == 1

InitReload ==
    /\ tools = RegisteredTools
    /\ db_manager = "set"
    /\ InitOrch
    /\ InitRagIdle
    /\ InitDeptIdle
    /\ InitExtractIdle
    /\ InitReloadIdle
    /\ chunks = <<>>
    /\ embeddings = "none"
    /\ embedding_model = "none"
    /\ rt_query = <<>>
    /\ rt_k = 0
    /\ rt_scores = <<>>
    /\ rt_result = <<>>
    /\ rt_pc = "idle"
    /\ loaded = FALSE
    /\ ld_file \in {"present", "missing"}
    /\ ld_text \in ReloadTexts
    /\ ld_pc = "idle"

\* the knowledge file is rewritten or removed; load_documents looks at the
\* file only in its first statements, so changes while a load is past
\* them act like changes after it
FileChange ==
    /\ ld_pc = "idle"
    /\ ld_file' \in {"present", "missing"}
    /\ ld_text' \in ReloadTexts
    /\ <<ld_file', ld_text'>> # <<ld_file, ld_text>>
    /\ UNCHANGED <<loaded, ld_pc, rt_vars, rl_vars>>

\* the existence test, the read and the chunking into the local final_chunks
LoadOpen ==
    /\ ld_pc = "idle"
    /\ IF ld_file = "missing"
       THEN /\ last_load' = "missing"
            /\ UNCHANGED ld_pc
       ELSE /\ ld_pc' = "read"
            /\ UNCHANGED last_load
    /\ UNCHANGED <<loaded, ld_file, ld_text, rt_vars, embedded, rt_mode, rt_top,
                   rt_rows, rt_chunks, load_mode>>

\* self.chunks = final_chunks
LoadAssignChunks ==
    /\ ld_pc = "read"
    /\ chunks' = load_chunks(ld_text)
    /\ ld_pc' = "chunks"
    /\ UNCHANGED <<loaded, ld_file, ld_text, embeddings, embedding_model, rt_query,
                   rt_k, rt_scores, rt_result, rt_pc, rl_vars>>

\* self.embedding_model = SentenceTransformer(...), or the except branch
LoadModel ==
    /\ ld_pc = "chunks"
    /\ \E model_ok \in BOOLEAN :
          IF model_ok
          THEN embedding_model' = "loaded" /\ ld_pc' = "model"
          ELSE embedding_model' = "none" /\ ld_pc' = "except"
    /\ UNCHANGED <<loaded, ld_file, ld_text, chunks, embeddings, rt_query,
                   rt_k, rt_scores, rt_result, rt_pc, rl_vars>>

\* self.embeddings = self.embedding_model.encode(self.chunks), or the
\* except branch
LoadEncode ==
    /\ ld_pc = "model"
    /\ \E encode_ok \in BOOLEAN :
          IF encode_ok
          THEN /\ embeddings' = "set"
               /\ embedded' = chunks
               /\ ld_pc' = "encoded"
               /\ UNCHANGED embedding_model
          ELSE /\ embedding_model' = "none"
               /\ ld_pc' = "except"
               /\ UNCHANGED <<embeddings, embedded>>
    /\ UNCHANGED <<loaded, ld_file, ld_text, chunks, rt_query, rt_k, rt_scores,
                   rt_result, rt_pc, rt_mode, rt_top, rt_rows, rt_chunks,
                   last_load, load_mode>>

\* self._loaded = True, and load_documents returns
LoadFinish ==
    /\ ld_pc \in {"encoded", "except"}
    /\ loaded' = TRUE
    /\ last_load' = "found"
    /\ load_mode' = IF ld_pc = "encoded" THEN "semantic" ELSE "fallback"
    /\ ld_pc' = "idle"
    /\ UNCHANGED <<ld_file, ld_text, rt_vars, embedded, rt_mode, rt_top, rt_rows,
                   rt_chunks>>

\* "if not self.chunks": the first read of self.chunks; an empty list
\* returns [] at once
RetrieveBegin ==
    /\ rt_pc = "idle"
    /\ \E k \in 0..MaxReloadK : rt_k' = k
    /\ IF chunks = <<>>
       THEN /\ rt_mode' = "empty"
            /\ rt_pc' = "done"
       ELSE /\ rt_pc' = "mode"
            /\ UNCHANGED rt_mode
    /\ UNCHANGED <<chunks, embeddings, embedding_model, rt_query, rt_scores,
                   rt_result, ld_vars, embedded, rt_top, rt_rows, rt_chunks,
                   last_load, load_mode>>

\* the left operand of the mode test taken as true whatever the model is
HasEmbeddingModelAlways == TRUE
\* "self.embedding_model is not None", the left operand of the mode test
HasEmbeddingModel == embedding_model # "none"

\* the left operand of the mode test: without a model the "and" stops
\* and the call takes the else branch
RetrieveTestModel ==
    /\ rt_pc = "mode"
    /\ IF HasEmbeddingModel
       THEN /\ rt_pc' = "mode2"
            /\ UNCHANGED rt_mode
       ELSE /\ rt_pc' = "fallback"
            /\ rt_mode' = "fallback"
    /\ UNCHANGED <<chunks, embeddings, embedding_model, rt_query, rt_k, rt_scores,
                   rt_result, ld_vars, embedded, rt_top, rt_rows, rt_chunks,
                   last_load, load_mode>>

\* the right operand of the mode test, read after the left one
RetrieveTestEmbeddings ==
    /\ rt_pc = "mode2"
    /\ IF embeddings # "none"
       THEN /\ rt_pc' = "semantic"
            /\ rt_mode' = "semantic"
       ELSE /\ rt_pc' = "fallback"
            /\ rt_mode' = "fallback"
    /\ UNCHANGED <<chunks, embeddings, embedding_model, rt_query, rt_k, rt_scores,
                   rt_result, ld_vars, embedded, rt_top, rt_rows, rt_chunks,
                   last_load, load_mode>>

\* the else branch: "for chunk in self.chunks" reads self.chunks again and
\* scores the list it finds then; the sort and the slice work on locals.
\* The text of a passage is not modelled here, so the word-match counts
\* are any counts.  rt_result holds the positions of the passages returned
\* and rt_chunks the passages themselves
RetrieveScan ==
    /\ rt_pc = "fallback"
    /\ \E scores \in [DOMAIN chunks -> 0..1] :
          LET result == Slice(RankByScore(scores), rt_k)
          IN  /\ rt_scores' = scores
              /\ rt_result' = result
              /\ rt_chunks' = [j \in DOMAIN result |-> chunks[result[j]]]
    /\ rt_pc' = "done"
    /\ UNCHANGED <<chunks, embeddings, embedding_model, rt_query, rt_k, ld_vars,
                   embedded, rt_mode, rt_top, rt_rows, last_load, load_mode>>

\* self.embedding_model.encode([query]): a second read of the model;
\* encode on None raises AttributeError
RetrieveEncode ==
    /\ rt_pc = "semantic"
    /\ rt_pc' = IF embedding_model = "none" THEN "raised" ELSE "encoded"
    /\ UNCHANGED <<chunks, embeddings, embedding_model, rt_query, rt_k, rt_scores,
                   rt_result, ld_vars, embedded, rt_mode, rt_top, rt_rows,
                   rt_chunks, last_load, load_mode>>

\* the top_indices whose similarity passes the threshold, in order
Picked(top, sims) ==
    LET above(i) == sims[i] > MinSimilarityTenths
    IN  SelectSeq(top, above)

\* cosine_similarity against self.embeddings, a second read of the
\* embeddings, and the argsort.  Embeddings without a row (those of a load
\* of a text with no passage) fail sklearn's input validation, which
\* raises ValueError; with nothing above the threshold the comprehension
\* reads no passage and the call returns []
RetrieveScore ==
    /\ rt_pc = "encoded"
    /\ IF embedded = <<>>
       THEN /\ rt_pc' = "raised"
            /\ UNCHANGED <<rt_scores, rt_top, rt_rows>>
       ELSE \E sims \in [DOMAIN embedded -> ReloadSims] :
             \E order \in Argsorts(sims) :
               LET top == Slice(Reverse(order), rt_k)
               IN  /\ rt_scores' = sims
                   /\ rt_top' = top
                   /\ rt_rows' = embedded
                   /\ rt_pc' = IF Picked(top, sims) = <<>> THEN "done"
                               ELSE "scored"
    /\ UNCHANGED <<chunks, embeddings, embedding_model, rt_query, rt_k, rt_result,
                   ld_vars, embedded, rt_mode, rt_chunks, last_load, load_mode>>

\* [self.chunks[i] for i in top_indices if similarities[i] > 0.1], one
\* element at a step: each element reads self.chunks anew; an index past
\* the end of the list read raises IndexError
RetrievePick ==
    /\ rt_pc = "scored"
    /\ LET picked == Picked(rt_top, rt_scores)
           i == picked[Len(rt_result) + 1]
       IN  IF i > Len(chunks)
           THEN /\ rt_pc' = "raised"
                /\ UNCHANGED <<rt_result, rt_chunks>>
           ELSE /\ rt_result' = Append(rt_result, i)
                /\ rt_chunks' = Append(rt_chunks, chunks[i])
                /\ rt_pc' = IF Len(rt_result) + 1 = Len(picked)
                            THEN "done" ELSE "scored"
    /\ UNCHANGED <<chunks, embeddings, embedding_model, rt_query, rt_k, rt_scores,
                   ld_vars, embedded, rt_mode, rt_top, rt_rows, last_load,
                   load_mode>>

\* the call has returned or raised; the next one may start
RetrieveReturn ==
    /\ rt_pc \in {"done", "raised"}
    /\ rt_pc' = "idle"
    /\ rt_mode' = ""
    /\ rt_k' = 0
    /\ rt_scores' = <<>>
    /\ rt_result' = <<>>
    /\ rt_top' = <<>>
    /\ rt_rows' = <<>>
    /\ rt_chunks' = <<>>
    /\ UNCHANGED <<chunks, embeddings, embedding_model, rt_query, ld_vars,
                   embedded, last_load, load_mode>>

NextReload ==
    \/ FileChange /\ UNCHANGED <<tools, db_manager, orch_vars, rag_vars, ex_vars, dp_vars>>
    \/ LoadOpen /\ UNCHANGED <<tools, db_manager, orch_vars, rag_vars, ex_vars, dp_vars>>
    \/ LoadAssignChunks /\ UNCHANGED <<tools, db_manager, orch_vars, rag_vars, ex_vars, dp_vars>>
    \/ LoadModel /\ UNCHANGED <<tools, db_manager, orch_vars, rag_vars, ex_vars, dp_vars>>
    \/ LoadEncode /\ UNCHANGED <<tools, db_manager, orch_vars, rag_vars, ex_vars, dp_vars>>
    \/ LoadFinish /\ UNCHANGED <<tools, db_manager, orch_vars, rag_vars, ex_vars, dp_vars>>
    \/ RetrieveBegin /\ UNCHANGED <<tools, db_manager, orch_vars, rag_vars, ex_vars, dp_vars>>
    \/ RetrieveTestModel /\ UNCHANGED <<tools, db_manager, orch_vars, rag_vars, ex_vars, dp_vars>>
    \/ RetrieveTestEmbeddings /\ UNCHANGED <<tools, db_manager, orch_vars, rag_vars, ex_vars, dp_vars>>
    \/ RetrieveScan /\ UNCHANGED <<tools, db_manager, orch_vars, rag_vars, ex_vars, dp_vars>>
    \/ RetrieveEncode /\ UNCHANGED <<tools, db_manager, orch_vars, rag_vars, ex_vars, dp_vars>>
    \/ RetrieveScore /\ UNCHANGED <<tools, db_manager, orch_vars, rag_vars, ex_vars, dp_vars>>
    \/ RetrievePick /\ UNCHANGED <<tools, db_manager, orch_vars, rag_vars, ex_vars, dp_vars>>
    \/ RetrieveReturn /\ UNCHANGED <<tools, db_manager, orch_vars, rag_vars, ex_vars, dp_vars>>

SpecReload == InitReload /\ [][NextReload]_vars

\* C14: after any sequence of load_documents calls the service is ready
\* exactly when the most recent call found the knowledge file: a call that
\* raised FileNotFoundError leaves it not ready, a load whose embedding
\* backend failed leaves it ready in fallback mode.
C14_ReadyIffLastLoadFoundFile ==
    (ld_pc = "idle" /\ last_load # "none") =>
        /\ loaded <=> (last_load = "found")
        /\ (last_load = "found" /\ load_mode = "fallback") => (loaded /\ ~SemanticMode)

\* C15: a retrieval that interleaves with a load never raises and, in
\* semantic mode, every passage it returns is the passage whose embedding
\* it scored at that position.
C15_ReloadAtomicForRetrieval ==
    /\ rt_pc # "raised"
    /\ (rt_pc \in {"scored", "done"} /\ rt_mode = "semantic") =>
          \A j \in DOMAIN rt_result : rt_chunks[j] = rt_rows[rt_result[j]]

\* a retrieval takes a step
RetrievalStep == rt_pc' # rt_pc

\* C18: the retrieval mode is the one the most recent completed load
\* selected: between loads the mode test gives semantic mode exactly when
\* that load's embedding backend worked, a retrieval whose mode test
\* starts after a degraded load and before the next load takes the
\* fallback branch even with embeddings of an earlier load still stored,
\* a retrieval that took the fallback branch stays in it, and no step of
\* a retrieval changes the model, the embeddings or the passages.
C18_ModeFixedByLoad ==
    /\ []((ld_pc = "idle" /\ load_mode # "none") =>
             (SemanticMode <=> load_mode = "semantic"))
    /\ [][(RetrievalStep /\ rt_pc = "mode" /\ ld_pc = "idle"
                /\ load_mode = "fallback")
             => (rt_pc' = "fallback" /\ rt_mode' = "fallback")]_vars
    /\ [][(RetrievalStep /\ rt_pc = "fallback")
             => (rt_pc' = "done" /\ rt_mode' = "fallback")]_vars
    /\ [][RetrievalStep =>
             UNCHANGED <<chunks, embeddings, embedding_model, embedded,
                         loaded, load_mode>>]_vars

\* a fallback retrieval that returned a passage after a degraded reload,
\* with the embeddings of the earlier load still stored
C18_Witness ==
    /\ ld_pc = "idle"
    /\ load_mode = "fallback"
    /\ embeddings = "set"
    /\ embedded # <<>>
    /\ rt_pc = "done"
    /\ rt_mode = "fallback"
    /\ rt_result # <<>>

(***************************************************************************)
(* get_employees_by_department on employees tables of up to a few rows     *)
(* more than the search's LIMIT.  A table holds HR employees and IT        *)
(* employees named Chris (whose name matches LIKE '%hr%'), in either order. *)
(***************************************************************************)
MaxOver == 1

HrRow(i) ==
    [EmployeeID |-> "H" \o ToString(i), Name |-> "Ann", Email |-> "ann@x.io",
     Department |-> "HR"]
ChrisRow(i) ==
    [EmployeeID |-> "C" \o ToString(i), Name |-> "Chris", Email |-> "bob@x.io",
     Department |-> "IT"]
RowCounts ==
    {0, 1, 2} \cup (DepartmentSearchLimit..(DepartmentSearchLimit + MaxOver))
DeptTables ==
    { [i \in 1..h |-> HrRow(i)] \o [i \in 1..c |-> ChrisRow(i)] :
          h \in RowCounts, c \in RowCounts }
    \cup
    { [i \in 1..c |-> ChrisRow(i)] \o [i \in 1..h |-> HrRow(i)] :
          h \in RowCounts, c \in RowCounts }
DeptNames == {"HR", "hr", "Hr", "IT"}

InitDept ==
    /\ tools = RegisteredTools
    /\ db_manager = "set"
    /\ InitOrch
    /\ InitRagIdle
    /\ InitExtractIdle
    /\ InitReloadIdle
    /\ InitRetrieveIdle
    /\ InitLoadIdle
    /\ dp_table \in DeptTables
    /\ dp_department = ""
    /\ dp_result = NoResult
    /\ dp_pc = "ready"

\* tools["get_employees_by_department"]["function"](department=d), the
\* store answering
GetEmployeesByDepartment ==
    /\ dp_pc = "ready"
    /\ \E d \in DeptNames :
        /\ dp_department' = d
        /\ dp_result' =
              tool_get_employees_by_department_on(
                  dp_table, [department |-> JStr(d)], db_manager, "ok").value
    /\ dp_pc' = "done"
    /\ UNCHANGED dp_table

NextDept ==
    GetEmployeesByDepartment
        /\ UNCHANGED <<tools, db_manager, orch_vars, rag_vars, ex_vars, rt_vars, ld_vars, rl_vars>>

SpecDept == InitDept /\ [][NextDept]_vars

\* C19: get_employees_by_department(d) returns exactly the stored records
\* whose Department equals d case-insensitively, whatever the number of
\* stored records, and count is the number of records returned.
C19_AllOfDepartment ==
    dp_pc = "done" =>
        LET same(e) == Lower(e.Department) = Lower(dp_department) IN
        /\ dp_result.success
        /\ dp_result.data = SelectSeq(dp_table, same)
        /\ dp_result.count = Len(dp_result.data)
====
